---- MODULE Spec2Model ----
(***************************************************************************)
(* A model of src/sysmon.cpp: the sampling loop of main(), one cycle being *)
(* sample -> derive -> sort -> render -> poll one key -> sleep.            *)
(*                                                                         *)
(* The kernel's /proc is the environment: every cycle it hands the loop an *)
(* arbitrary enumeration of pids, arbitrary counters for each of them and  *)
(* an arbitrary total-jiffies reading (counters that go down model a       *)
(* counter reset or a pid reused by another process).                      *)
(*                                                                         *)
(* cpu_percent and mem_percent are doubles in the source.  They are kept   *)
(* as exact fractions [num, den] in lowest terms (den > 0) and compared by *)
(* cross multiplication: at the magnitudes explored here 100.0 * delta is  *)
(* exact and the correctly rounded quotient preserves order.               *)
(*                                                                         *)
(* The display-only fields of ProcInfo (uid, user, cmd, vsize) are not     *)
(* modelled; nothing the loop decides reads them.                          *)
(***************************************************************************)
EXTENDS Integers, Sequences, FiniteSets, TLC

\* ---------------------------------------------------------------- bounds
MaxUtime == 1       \* utime readings are 0..MaxUtime
MaxTotal == 4       \* total-jiffies readings are 0..MaxTotal
MaxInterval == 3    \* '-' is not pressed beyond this interval
CoreCount == 1      \* execution units of the machine (bound of C6)

\* The pids the environment may enumerate.
PidSet == {1, 2}

\* sysconf(_SC_PAGESIZE) and the divisor of line 143
PageSize == 4096
KbBytes == 1024
\* lines reserved above and below the table: max_display = rows - 5
ReservedLines == 5
\* interval_s at startup, and its floor
InitInterval == 2
MinInterval == 1

VARIABLES
    pc,                  \* where main() is: sample, render, input, sleep, done
    highlight,           \* int highlight
    interval_s,          \* int interval_s
    sortmode,            \* SortMode sortmode
    prev_total_jiffies,  \* unsigned long long prev_total_jiffies
    prev_proc_jiffies,   \* std::map<int, unsigned long> prev_proc_jiffies
    total_jiffies,       \* total_jiffies of the current cycle
    mem_total_kb,        \* mem_total_kb of the current cycle
    total_delta,         \* total_delta of the current cycle
    pids,                \* auto pids = list_pids(), in enumeration order
    procs,               \* std::vector<ProcInfo> procs (sorted after Sample)
    calc,                \* per pid, the loop body's locals cur, prev, delta
    unread,              \* enumerated pids whose /proc files could not be opened
    real,                \* the kernel's utime + stime of each enumerated pid
    frame,               \* what this cycle has drawn on the terminal
    ch,                  \* int ch = getch() of this cycle
    sig                  \* the kill() issued by this cycle's key, if any

vars == <<pc, highlight, interval_s, sortmode, prev_total_jiffies,
          prev_proc_jiffies, total_jiffies, mem_total_kb, total_delta, pids,
          procs, calc, unread, real, frame, ch, sig>>

\* ------------------------------------------------------------- helpers
Max(a, b) == IF a >= b THEN a ELSE b
Min(a, b) == IF a <= b THEN a ELSE b

Range(s) == {s[i] : i \in DOMAIN s}

\* The sequences that list every element of S once.
Enumerations(S) ==
    {s \in [1..Cardinality(S) -> S] : Range(s) = S}

\* The permutations of a sequence.
Perms(s) ==
    {[i \in DOMAIN s |-> s[f[i]]] : f \in Enumerations(DOMAIN s)}

PidsOf(ps) == {ps[i].pid : i \in DOMAIN ps}

RECURSIVE GCD(_, _)
GCD(a, b) == IF b = 0 THEN a ELSE GCD(b, a % b)

\* A fraction as a value of a double, in lowest terms; n >= 0 and d > 0 always.
Frac(n, d) == [num |-> n \div GCD(n, d), den |-> d \div GCD(n, d)]
FracGt(a, b) == a.num * b.den > b.num * a.den
FracEq(a, b) == a.num * b.den = b.num * a.den
FracLe(a, b) == a.num * b.den <= b.num * a.den

\* ch before getch() has run in the cycle
NoKey == "none"
\* getch() with no key pending
ERR == "ERR"

NoSig == [pid |-> 0, res |-> 0]
NoStatus == [kind |-> "none", pid |-> 0]
NoFrame == [height |-> 0, rows |-> <<>>, marked |-> -1, status |-> NoStatus]
\* ------------------------------------------------ the Snapshot Reader
\* read_proc(pid): the counters of /proc/<pid>/stat, or a ProcInfo left at its
\* member initialisers (all 0) when the files cannot be opened; no failure is
\* reported to the caller.
read_proc(pid, st, bad) ==
    IF pid \in bad
    THEN [pid |-> pid, utime |-> 0, stime |-> 0, rss |-> 0,
          cpu_percent |-> Frac(0, 1), mem_percent |-> Frac(0, 1)]
    ELSE [pid |-> pid, utime |-> st[pid].utime, stime |-> st[pid].stime,
          rss |-> st[pid].rss,
          cpu_percent |-> Frac(0, 1), mem_percent |-> Frac(0, 1)]

\* --------------------------------------------------- the Delta Engine
\* unsigned long cur = pi.utime + pi.stime;
CurOf(pi) == pi.utime + pi.stime

\* prev_proc_jiffies.count(pid) ? prev_proc_jiffies[pid] : 0
PrevOf(map, pid) == IF pid \in DOMAIN map THEN map[pid] ELSE 0

\* DeltaOf without the pid-reuse guard.
DeltaOf_NoGuard(cur, prev) == cur - prev

\* (cur >= prev) ? (cur - prev) : 0
DeltaOf(cur, prev) == IF cur >= prev THEN cur - prev ELSE 0

\* TotalDelta taking the distance of the two totals instead of clamping.
TotalDelta_Abs(total, prev_total) ==
    IF total >= prev_total THEN total - prev_total ELSE prev_total - total

\* (total_jiffies >= prev_total_jiffies) ? (total_jiffies - prev_total_jiffies) : 0
TotalDelta(total, prev_total) ==
    IF total >= prev_total THEN total - prev_total ELSE 0

\* (total_delta > 0) ? (100.0 * delta / total_delta) : 0.0
CpuPct(delta, td) == IF td > 0 THEN Frac(100 * delta, td) ELSE Frac(0, 1)

\* The resident pages taken for kilobytes: no page_size, no 1024.
MemPct_PagesAsKb(rss, memkb) ==
    IF memkb > 0 THEN Frac(100 * rss, memkb) ELSE Frac(0, 1)

\* (mem_total_kb > 0) ? (100.0 * ((pi.rss * page_size) / 1024.0) / mem_total_kb) : 0.0
MemPct(rss, memkb) ==
    IF memkb > 0 THEN Frac(100 * rss * PageSize, KbBytes * memkb) ELSE Frac(0, 1)

\* One iteration of the for loop over pids: the ProcInfo pushed onto procs.
Enrich(pi, map, td, memkb) ==
    [pi EXCEPT !.cpu_percent = CpuPct(DeltaOf(CurOf(pi), PrevOf(map, pi.pid)), td),
               !.mem_percent = MemPct(pi.rss, memkb)]

\* The locals of that iteration.
Locals(pi, map) ==
    [cur |-> CurOf(pi), had |-> pi.pid \in DOMAIN map,
     prev |-> PrevOf(map, pi.pid),
     delta |-> DeltaOf(CurOf(pi), PrevOf(map, pi.pid))]

\* prev_proc_jiffies[pid] = cur; for every pid of the enumeration.  The map is
\* declared outside the loop and nothing erases from it.
MapAfter(map, raw) ==
    [p \in DOMAIN map \cup PidsOf(raw) |->
        IF p \in PidsOf(raw)
        THEN CurOf(CHOOSE pi \in Range(raw) : pi.pid = p)
        ELSE map[p]]

\* ----------------------------------------------- Ranking & Selection
\* The comparators handed to std::sort: comp(a, b) is "a goes before b".
Before(a, b, mode) ==
    CASE mode = "BY_CPU" -> FracGt(a.cpu_percent, b.cpu_percent)
      [] mode = "BY_MEM" -> FracGt(a.mem_percent, b.mem_percent)
      [] OTHER -> a.pid < b.pid

Ordered(s, mode) ==
    \A i, j \in DOMAIN s : i < j => ~Before(s[j], s[i], mode)

\* The list left as the loop pushed it, in any order: no sort.
SortOutcomes_Unsorted(s, mode) == Perms(s)

\* std::sort is not stable: any ordered permutation may come out.
SortOutcomes(s, mode) == {t \in Perms(s) : Ordered(t, mode)}

\* ------------------------------------------------------------ startup
\* Lines 111-125.  prev_total_jiffies is the first read of /proc/stat.
InitWith(D) ==
    /\ pc = "sample"
    /\ highlight = 0
    /\ interval_s = InitInterval
    /\ sortmode = "BY_CPU"
    /\ prev_total_jiffies \in D.totals
    /\ prev_proc_jiffies = <<>>
    /\ total_jiffies = 0
    /\ mem_total_kb = 0
    /\ total_delta = 0
    /\ pids = <<>>
    /\ procs = <<>>
    /\ calc = <<>>
    /\ unread = {}
    /\ real = <<>>
    /\ frame = NoFrame
    /\ ch = NoKey
    /\ sig = NoSig

\* ------------------------------------------------------- one cycle
\* max_display taken one too large: a row is drawn on the last reserved line.
RowsDrawn_OffByOne(rows, n) == Min(Max(rows - ReservedLines + 1, 0), n)

\* The rows the for loop of lines 172-180 draws: i < max_display && i < size.
RowsDrawn(rows, n) == Min(Max(rows - ReservedLines, 0), n)

\* Lines 165-182: clear(), getmaxyx, the header lines, then the first rows of
\* the list, the one at index highlight in reverse video.  height is the
\* terminal height getmaxyx returned.
Draw(ps, rows, hl) ==
    [height |-> rows,
     rows |-> SubSeq(ps, 1, RowsDrawn(rows, Len(ps))),
     marked |-> IF hl >= 0 /\ hl < RowsDrawn(rows, Len(ps)) THEN hl ELSE -1,
     status |-> NoStatus]

\* Lines 128-182: read the totals, enumerate, read and derive every pid,
\* replace prev_total_jiffies, sort, render.  Nothing between the sort and
\* the render touches highlight.
SampleAndRender(D) ==
    /\ pc = "sample"
    /\ \E total \in D.totals, memkb \in D.memtotals, en \in D.enums,
          rows \in D.rows :
       \E st \in [Range(en) -> D.stats], bad \in SUBSET Range(en) :
         LET td == TotalDelta(total, prev_total_jiffies)
             rd == [i \in DOMAIN en |-> read_proc(en[i], st, bad)]
             raw == [i \in DOMAIN en |->
                        Enrich(rd[i], prev_proc_jiffies, td, memkb)]
         IN /\ procs' \in SortOutcomes(raw, sortmode)
            /\ calc' = [p \in Range(en) |->
                          Locals(CHOOSE pi \in Range(rd) : pi.pid = p,
                                 prev_proc_jiffies)]
            /\ prev_proc_jiffies' = MapAfter(prev_proc_jiffies, raw)
            /\ total_jiffies' = total
            /\ prev_total_jiffies' = total
            /\ total_delta' = td
            /\ mem_total_kb' = memkb
            /\ pids' = en
            /\ unread' = bad
            /\ real' = [p \in Range(en) |-> st[p].utime + st[p].stime]
            /\ frame' = Draw(procs', rows, highlight)
    /\ sig' = NoSig
    /\ pc' = "input"
    /\ UNCHANGED <<highlight, interval_s, sortmode, ch>>

\* Lines 184-201: int ch = getch(); one branch per key.
data == <<prev_total_jiffies, prev_proc_jiffies, total_jiffies, mem_total_kb,
          total_delta, pids, procs, calc, unread, real>>

\* NoInput taking the absence of a key for a command: the cursor goes home.
NoInput_ResetsCursor ==
    /\ pc = "input"
    /\ ch' = ERR
    /\ highlight' = 0
    /\ pc' = "sleep"
    /\ UNCHANGED <<interval_s, sortmode, frame, sig, data>>

\* ch == ERR: no key is pending.
NoInput ==
    /\ pc = "input"
    /\ ch' = ERR
    /\ pc' = "sleep"
    /\ UNCHANGED <<highlight, interval_s, sortmode, frame, sig, data>>

\* A key none of the ifs matches.
KeyOther ==
    /\ pc = "input"
    /\ ch' = "other"
    /\ pc' = "sleep"
    /\ UNCHANGED <<highlight, interval_s, sortmode, frame, sig, data>>

\* KeyQuit without the break: the loop goes on to sleep.
KeyQuit_NoBreak ==
    /\ pc = "input"
    /\ ch' = "q"
    /\ pc' = "sleep"
    /\ UNCHANGED <<highlight, interval_s, sortmode, frame, sig, data>>

\* if (ch == 'q') break;  then endwin() and return.
KeyQuit ==
    /\ pc = "input"
    /\ ch' = "q"
    /\ pc' = "done"
    /\ UNCHANGED <<highlight, interval_s, sortmode, frame, sig, data>>

\* if (ch == KEY_UP) highlight = std::max(0, highlight - 1);
KeyUp ==
    /\ pc = "input"
    /\ ch' = "KEY_UP"
    /\ highlight' = Max(0, highlight - 1)
    /\ pc' = "sleep"
    /\ UNCHANGED <<interval_s, sortmode, frame, sig, data>>

\* if (ch == KEY_DOWN) highlight = std::min((int)procs.size() - 1, highlight + 1);
KeyDown ==
    /\ pc = "input"
    /\ ch' = "KEY_DOWN"
    /\ highlight' = Min(Len(procs) - 1, highlight + 1)
    /\ pc' = "sleep"
    /\ UNCHANGED <<interval_s, sortmode, frame, sig, data>>

\* if (ch == 'c') sortmode = BY_CPU;  'm': BY_MEM;  'p': BY_PID
KeySort ==
    /\ pc = "input"
    /\ \E k \in {"c", "m", "p"} :
         /\ ch' = k
         /\ sortmode' = CASE k = "c" -> "BY_CPU"
                           [] k = "m" -> "BY_MEM"
                           [] OTHER -> "BY_PID"
    /\ pc' = "sleep"
    /\ UNCHANGED <<highlight, interval_s, frame, sig, data>>

\* KeyPlus without the std::max: the interval goes below 1.
KeyPlus_NoFloor ==
    /\ pc = "input"
    /\ ch' = "+"
    /\ interval_s' = interval_s - 1
    /\ pc' = "sleep"
    /\ UNCHANGED <<highlight, sortmode, frame, sig, data>>

\* if (ch == '+') interval_s = std::max(1, interval_s - 1);
KeyPlus ==
    /\ pc = "input"
    /\ ch' = "+"
    /\ interval_s' = Max(MinInterval, interval_s - 1)
    /\ pc' = "sleep"
    /\ UNCHANGED <<highlight, sortmode, frame, sig, data>>

\* if (ch == '-') interval_s += 1;
KeyMinus ==
    /\ pc = "input"
    /\ ch' = "-"
    /\ interval_s < MaxInterval
    /\ interval_s' = interval_s + 1
    /\ pc' = "sleep"
    /\ UNCHANGED <<highlight, sortmode, frame, sig, data>>

\* KeyKill leaving the loop when kill() is rejected.
KeyKill_ExitOnFailure ==
    /\ pc = "input"
    /\ ch' = "k"
    /\ IF highlight >= 0 /\ highlight < Len(procs)
       THEN \E res \in {0, -1} :
              LET pid == procs[highlight + 1].pid
              IN /\ sig' = [pid |-> pid, res |-> res]
                 /\ frame' = [frame EXCEPT !.status =
                        [kind |-> IF res = 0 THEN "killed" ELSE "failed",
                         pid |-> pid]]
                 /\ pc' = IF res = 0 THEN "sleep" ELSE "done"
       ELSE /\ UNCHANGED <<sig, frame>>
            /\ pc' = "sleep"
    /\ UNCHANGED <<highlight, interval_s, sortmode, data>>

\* if (ch == 'k' && highlight >= 0 && highlight < (int)procs.size()) { kill ... }
\* kill() succeeds (0) or is rejected (-1); either way the message is printed
\* and the loop goes on.
KeyKill ==
    /\ pc = "input"
    /\ ch' = "k"
    /\ IF highlight >= 0 /\ highlight < Len(procs)
       THEN \E res \in {0, -1} :
              LET pid == procs[highlight + 1].pid
              IN /\ sig' = [pid |-> pid, res |-> res]
                 /\ frame' = [frame EXCEPT !.status =
                        [kind |-> IF res = 0 THEN "killed" ELSE "failed",
                         pid |-> pid]]
       ELSE UNCHANGED <<sig, frame>>
    /\ pc' = "sleep"
    /\ UNCHANGED <<highlight, interval_s, sortmode, data>>

\* std::this_thread::sleep_for(std::chrono::seconds(interval_s)); and the end of
\* the loop body: its locals go out of scope, and the next clear() erases what
\* was drawn.  The map, the previous total and the kernel's counters stay; sig
\* stays as the record of the request the ending cycle made, until the next
\* cycle starts.
Sleep ==
    /\ pc = "sleep"
    /\ pc' = "sample"
    /\ total_jiffies' = 0
    /\ mem_total_kb' = 0
    /\ total_delta' = 0
    /\ pids' = <<>>
    /\ procs' = <<>>
    /\ calc' = <<>>
    /\ unread' = {}
    /\ frame' = NoFrame
    /\ ch' = NoKey
    /\ UNCHANGED <<highlight, interval_s, sortmode, prev_total_jiffies,
                   prev_proc_jiffies, real, sig>>

\* ------------------------------------------------------ input domains
\* The enumerations list_pids() may return.
AllEnums == UNION {Enumerations(S) : S \in SUBSET PidSet}

\* The whole program with every key; small counters.
FullDom ==
    [totals |-> 0..1, memtotals |-> {8},
     stats |-> [utime : 0..1, stime : {0}, rss : {1}],
     enums |-> AllEnums, rows |-> {ReservedLines + 1, ReservedLines + 2}]

\* The engine with the operator idle; wide counters.
DeltaDom ==
    [totals |-> 0..MaxTotal, memtotals |-> {8},
     stats |-> [utime : 0..MaxUtime, stime : {0, 1}, rss : {1}],
     enums |-> AllEnums, rows |-> {ReservedLines + 2}]

\* The table and the cursor: three pids, terminals from too short for any row
\* to taller than the list, counters at rest.
ViewPids == {1, 2, 3}

ViewDom ==
    [totals |-> {0}, memtotals |-> {8},
     stats |-> [utime : {0}, stime : {0}, rss : {1}],
     enums |-> UNION {Enumerations(S) : S \in SUBSET ViewPids},
     rows |-> (ReservedLines - 2)..(ReservedLines + 3)]

\* Memory: MemTotal missing (0) or present, resident sets of 0, 1 and 2
\* pages, counters at rest.
MemDom ==
    [totals |-> {0}, memtotals |-> {0, 8, 16},
     stats |-> [utime : {0}, stime : {0}, rss : {0, 1, 2}],
     enums |-> AllEnums, rows |-> {ReservedLines + 2}]

Init == InitWith(FullDom)

Next ==
    \/ SampleAndRender(FullDom)
    \/ NoInput
    \/ KeyOther
    \/ KeyQuit
    \/ KeyUp
    \/ KeyDown
    \/ KeySort
    \/ KeyPlus
    \/ KeyMinus
    \/ KeyKill
    \/ Sleep

Spec == Init /\ [][Next]_vars

InitDelta == InitWith(DeltaDom)

NextDelta ==
    \/ SampleAndRender(DeltaDom)
    \/ NoInput
    \/ KeyQuit
    \/ Sleep

SpecDelta == InitDelta /\ [][NextDelta]_vars

InitMem == InitWith(MemDom)

NextMem ==
    \/ SampleAndRender(MemDom)
    \/ NoInput
    \/ KeySort
    \/ Sleep

SpecMem == InitMem /\ [][NextMem]_vars

InitView == InitWith(ViewDom)

NextView ==
    \/ SampleAndRender(ViewDom)
    \/ NoInput
    \/ KeyUp
    \/ KeyDown
    \/ KeyKill
    \/ Sleep

SpecView == InitView /\ [][NextView]_vars

\* ------------------------------------------------------------- claims
\* The cycle has a list: between its render and the end of its loop body.
Listed == pc \in {"input", "sleep", "done"}

\* The step that runs lines 128-182.
CycleStep == pc = "sample" /\ pc' = "input"

Zero == Frac(0, 1)

\* C1: in a cycle that starts with an empty prior-tick map, every listed
\* process gets cpu_percent = 0.
C1_FirstCycleAllZero ==
    [][CycleStep /\ DOMAIN prev_proc_jiffies = {}
         => \A i \in DOMAIN procs' : procs'[i].cpu_percent = Zero]_vars

\* C2: after every cycle the pids of the prior-tick map are exactly the pids
\* of the cycle's list.
C2_MapIsCurrentPids ==
    Listed => DOMAIN prev_proc_jiffies = PidsOf(procs)

\* C3: once the list is sorted, and when it is rendered, the cursor lies in
\* [0, length-1] if the list is not empty.
C3_CursorInRange ==
    pc = "input" /\ Len(procs) > 0
      => highlight >= 0 /\ highlight <= Len(procs) - 1

\* C4: a pid whose counters could not be read is not in the list and leaves
\* the prior-tick map as it was; every other enumerated pid is listed.
C4_FailedReadSkipped ==
    Listed =>
      /\ \A p \in unread :
           /\ p \notin PidsOf(procs)
           /\ IF calc[p].had
              THEN prev_proc_jiffies[p] = calc[p].prev
              ELSE p \notin DOMAIN prev_proc_jiffies
      /\ \A p \in Range(pids) \ unread : p \in PidsOf(procs)

\* C5: cpu_percent is never negative, and a pid whose ticks are below the
\* ticks the map held for it has delta 0 and cpu_percent 0.
C5_CpuNonNegative ==
    Listed =>
      \A i \in DOMAIN procs :
        LET pi == procs[i]
            l == calc[pi.pid]
        IN /\ pi.cpu_percent.num >= 0
           /\ pi.cpu_percent.den > 0
           /\ l.had /\ l.cur < l.prev
                => l.delta = 0 /\ pi.cpu_percent = Zero

\* A pid read with fewer ticks than the map held, while the total advanced.
C5_Witness ==
    /\ pc = "input"
    /\ total_delta > 0
    /\ \E i \in DOMAIN procs :
         LET l == calc[procs[i].pid]
         IN /\ procs[i].pid \notin unread
            /\ l.had /\ l.cur > 0 /\ l.cur < l.prev
            /\ procs[i].cpu_percent = Zero

\* C6: a pid listed by two consecutive cycles, whose kernel ticks grew by no
\* more than the total did, has cpu_percent <= 100 * CoreCount in the later
\* cycle.  A pid whose ticks went down is a new process: all its ticks are
\* growth.
C6_CpuWithinCapacity ==
    [][CycleStep =>
         \A i \in DOMAIN procs' :
           LET p == procs'[i].pid
           IN (/\ p \in DOMAIN real
               /\ (IF real'[p] >= real[p] THEN real'[p] - real[p] ELSE real'[p])
                    <= total_delta')
                => FracLe(procs'[i].cpu_percent, Frac(100 * CoreCount, 1))]_vars

\* C7: a pid the map holds, whose ticks did not go down and with the total
\* advanced, gets cpu_percent = 100 * (cur - prior) / (total - previous total),
\* prior being the pid's ticks at the immediately preceding cycle.
C7_CpuFormula ==
    [][CycleStep =>
         \A i \in DOMAIN procs' :
           LET pi == procs'[i]
               p == pi.pid
               cur == pi.utime + pi.stime
           IN (/\ p \in DOMAIN prev_proc_jiffies
               /\ cur >= prev_proc_jiffies[p]
               /\ p \in DOMAIN real => cur >= real[p]
               /\ total_jiffies' > prev_total_jiffies)
                => /\ p \in DOMAIN real
                   /\ FracEq(pi.cpu_percent,
                             Frac(100 * (cur - real[p]),
                                  total_jiffies' - prev_total_jiffies))]_vars

\* C8: when the total read is not above the previous one, total_delta is 0,
\* every listed process gets cpu_percent = 0, and the previous total becomes
\* the total read.
C8_ZeroSystemDelta ==
    [][CycleStep /\ total_jiffies' <= prev_total_jiffies
         => /\ total_delta' = 0
            /\ \A i \in DOMAIN procs' : procs'[i].cpu_percent = Zero
            /\ prev_total_jiffies' = total_jiffies']_vars

\* The total did not advance while a listed process's ticks did.
C8_Witness ==
    /\ pc = "input"
    /\ total_delta = 0
    /\ prev_total_jiffies = total_jiffies
    /\ \E i \in DOMAIN procs :
         /\ calc[procs[i].pid].delta > 0
         /\ procs[i].cpu_percent = Zero

\* C9: the loop is left only by the step that polls 'q'; the step that polls
\* anything else, or nothing, goes on to the sleep.
C9_StopOnlyOnQuit ==
    [][/\ pc # "done" /\ pc' = "done" => pc = "input" /\ ch' = "q"
       /\ pc = "input" /\ ch' # "q" => pc' = "sleep"]_vars

\* A kill the system rejected, and the loop going on.
C9_Witness ==
    pc = "sleep" /\ ch = "k" /\ sig.pid \in PidSet /\ sig.res = -1

\* C10: the cycle that polls 'q' ends in done, and nothing can happen there.
C10_QuitStops ==
    /\ ch = "q" => pc = "done"
    /\ pc = "done" => ~ENABLED Next

\* Quit polled over a list, after cycles that handled other keys.
C10_Witness ==
    /\ pc = "done"
    /\ ch = "q"
    /\ Len(procs) > 0
    /\ sortmode # "BY_CPU"

\* C11: the render of a cycle shows the rejected-request message exactly when
\* the cycle before it made a termination request that the system rejected,
\* and the message names that request's pid: the message is in the next render
\* and, with no new request, not in the one after.
C11_StatusInNextRender ==
    [][CycleStep =>
         /\ frame'.status.kind = "failed" <=> sig.res = -1
         /\ sig.res = -1 => frame'.status.pid = sig.pid]_vars

\* The place of pid p in the enumeration the cycle iterated (line 133).
EnumIndex(p) == CHOOSE k \in DOMAIN pids : pids[k] = p

\* C12: two listed processes that compare equal on the sort key in force stand
\* in the list in the order the enumeration had them.
C12_StableRanking ==
    pc = "input" =>
      \A i, j \in DOMAIN procs :
        (/\ i < j
         /\ ~Before(procs[i], procs[j], sortmode)
         /\ ~Before(procs[j], procs[i], sortmode))
          => EnumIndex(procs[i].pid) < EnumIndex(procs[j].pid)

\* C13: the list a cycle ranks and renders holds exactly the pids the cycle
\* enumerated, each once, in the order of the sort key in force when the cycle
\* started: cpu_percent non-increasing for BY_CPU, mem_percent non-increasing
\* for BY_MEM, pid strictly increasing for BY_PID; the rows drawn are that
\* list's rows.
C13_RankedPermutation ==
    [][CycleStep =>
         /\ Len(procs') = Len(pids')
         /\ PidsOf(procs') = Range(pids')
         /\ \A i, j \in DOMAIN procs' :
              i < j =>
                CASE sortmode = "BY_CPU" ->
                       FracLe(procs'[j].cpu_percent, procs'[i].cpu_percent)
                  [] sortmode = "BY_MEM" ->
                       FracLe(procs'[j].mem_percent, procs'[i].mem_percent)
                  [] OTHER -> procs'[i].pid < procs'[j].pid
         /\ \A i \in DOMAIN frame'.rows : frame'.rows[i] = procs'[i]]_vars

\* Ranked by memory, the sort having moved the later-enumerated pid first.
C13_Witness ==
    /\ pc = "input"
    /\ sortmode = "BY_MEM"
    /\ Len(procs) = 2
    /\ FracGt(procs[1].mem_percent, procs[2].mem_percent)
    /\ EnumIndex(procs[1].pid) > EnumIndex(procs[2].pid)
    /\ Len(frame.rows) = 2

\* C14: interval_s starts at 2 and is never below 1; the key that lengthens
\* the interval ('-') adds one, the key that shortens it ('+') takes one off
\* unless the interval is 1, and no other step changes it.
C14_IntervalFloor ==
    /\ interval_s = 2
    /\ [](interval_s >= 1)
    /\ [][/\ pc = "input" /\ ch' = "-" => interval_s' = interval_s + 1
          /\ pc = "input" /\ ch' = "+" =>
               interval_s' = IF interval_s = 1 THEN 1 ELSE interval_s - 1
          /\ ~(pc = "input" /\ ch' \in {"+", "-"}) =>
               interval_s' = interval_s]_vars

\* The shortening key polled over a list, the interval at its floor of 1.
C14_Witness ==
    /\ pc = "sleep"
    /\ ch = "+"
    /\ interval_s = 1
    /\ Len(procs) > 0

\* C15: over a list that is not empty, the step that polls KEY_UP or KEY_DOWN
\* moves highlight by at most one and leaves it in [0, length-1], whatever
\* value highlight had.
C15_CursorCommandClamped ==
    [][pc = "input" /\ ch' \in {"KEY_UP", "KEY_DOWN"} /\ Len(procs) > 0
         => /\ highlight' - highlight \in {-1, 0, 1}
            /\ highlight' >= 0
            /\ highlight' <= Len(procs) - 1]_vars

\* C16: the render draws min(max(0, height - ReservedLines), length) rows, and
\* they are the rows of the ranked list from its first, in order; every index
\* drawn is an index of the list.
C16_RowsRendered ==
    Listed =>
      /\ Len(frame.rows) =
           (LET room == IF frame.height - ReservedLines > 0
                        THEN frame.height - ReservedLines ELSE 0
            IN IF room < Len(procs) THEN room ELSE Len(procs))
      /\ \A i \in 1..Len(frame.rows) :
           i \in DOMAIN procs /\ frame.rows[i] = procs[i]

\* A terminal shorter than the reserved lines over a list of three: no row.
C16_Witness ==
    /\ pc = "input"
    /\ frame.height < ReservedLines
    /\ Len(procs) = 3
    /\ frame.rows = <<>>

\* C17: in every cycle each listed process has mem_percent 0 when MemTotal is
\* 0, and otherwise 100 * rss * PageSize / (mem_total_kb * 1024), rss and
\* mem_total_kb being what this cycle read; of two processes of the cycle, the
\* one with twice the resident pages has twice the mem_percent.
C17_MemFormula ==
    [][CycleStep =>
         \A i \in DOMAIN procs' :
           LET pi == procs'[i]
           IN /\ pi.mem_percent.den > 0
              /\ IF mem_total_kb' = 0
                 THEN pi.mem_percent.num = 0
                 ELSE pi.mem_percent.num * (mem_total_kb' * 1024)
                        = 100 * pi.rss * PageSize * pi.mem_percent.den
              /\ \A j \in DOMAIN procs' :
                   procs'[j].rss = 2 * pi.rss =>
                     procs'[j].mem_percent.num * pi.mem_percent.den
                       = 2 * pi.mem_percent.num * procs'[j].mem_percent.den]_vars

\* A later cycle listing two processes, one with twice the pages of the other
\* and twice its share.
C17_Witness ==
    /\ pc = "input"
    /\ mem_total_kb > 0
    /\ Len(procs) = 2
    /\ \A i \in DOMAIN procs : calc[procs[i].pid].had
    /\ procs[2].rss > 0
    /\ procs[1].rss = 2 * procs[2].rss
    /\ procs[1].mem_percent.num * procs[2].mem_percent.den
         = 2 * procs[2].mem_percent.num * procs[1].mem_percent.den

\* C18: a step issues a termination request only by polling 'k' with
\* highlight in [0, length-1] and a row drawn as selected by this cycle's
\* render, and the request's target is the pid of that row.
C18_KillTargetsMarkedRow ==
    [][sig' # NoSig /\ sig' # sig
         => /\ pc = "input"
            /\ ch' = "k"
            /\ highlight >= 0
            /\ highlight < Len(procs)
            /\ frame.marked >= 0
            /\ sig'.pid = frame.rows[frame.marked + 1].pid]_vars

\* C19: getch() runs once in a cycle, in the step that leaves "input", and ch
\* keeps its value until the sleep ends; that step changes at most one of the
\* cursor, the interval, the sort key, the requests issued and the running
\* state; when it polls ERR it changes none of them, issues no request and
\* goes on to the sleep.
C19_OnePollPerCycle ==
    [][/\ pc = "input" => ch = NoKey /\ ch' # NoKey /\ pc' # "input"
       /\ pc # "input" => ch' = ch \/ (pc = "sleep" /\ ch' = NoKey)
       /\ pc = "input" =>
            (IF highlight' # highlight THEN 1 ELSE 0)
              + (IF interval_s' # interval_s THEN 1 ELSE 0)
              + (IF sortmode' # sortmode THEN 1 ELSE 0)
              + (IF sig' # NoSig THEN 1 ELSE 0)
              + (IF pc' = "done" THEN 1 ELSE 0) <= 1
       /\ pc = "input" /\ ch' = ERR =>
            /\ UNCHANGED <<sortmode, interval_s, highlight>>
            /\ sig' = NoSig
            /\ pc' = "sleep"]_vars

\* A cycle with no key pending, after cycles that changed the sort key, the
\* interval and the cursor.
C19_Witness ==
    /\ pc = "sleep"
    /\ ch = ERR
    /\ sortmode = "BY_PID"
    /\ interval_s = 3
    /\ highlight = 1
    /\ Len(procs) = 2

====
